---- MODULE Spec2Model ----
(***************************************************************************)
(* gutenberg_word_count (lib/compat/wordpress-6.2/formatting.php): counts  *)
(* words or characters of a text after a fixed sequence of regular-        *)
(* expression substitutions.                                               *)
(*                                                                         *)
(* A PHP string is modelled as a sequence of characters; a character is a  *)
(* token ("a", "<", "LF", "EMDASH", ...) whose code point is Ord(c).       *)
(* A regular expression is a record: whether the source string carries     *)
(* delimiters, which pattern body it holds, and whether it has the u flag. *)
(***************************************************************************)
EXTENDS Integers, Sequences, FiniteSets, TLC

\* ---------------------------------------------------------------- bounds
MaxWordLen == 2
MaxLen == 3

\* ------------------------------------------------------------ characters
\* Code point of a character token.
Ord(c) ==
  CASE c = "TAB" -> 9   [] c = "LF" -> 10  [] c = "VT" -> 11  [] c = "FF" -> 12
    [] c = "CR" -> 13   [] c = " " -> 32   [] c = "!" -> 33   [] c = "#" -> 35
    [] c = "&" -> 38    [] c = "-" -> 45   [] c = "/" -> 47   [] c = "0" -> 48
    [] c = "1" -> 49    [] c = "5" -> 53   [] c = "6" -> 54   [] c = ";" -> 59
    [] c = "<" -> 60    [] c = "=" -> 61   [] c = ">" -> 62   [] c = "B" -> 66
    [] c = "N" -> 78    [] c = "[" -> 91   [] c = "]" -> 93   [] c = "a" -> 97
    [] c = "b" -> 98    [] c = "g" -> 103  [] c = "i" -> 105  [] c = "m" -> 109
    [] c = "n" -> 110   [] c = "p" -> 112  [] c = "s" -> 115
    [] c = "BYTE" -> 128    \* a byte 0x80..0xFF of a multi-byte UTF-8 character
    [] c = "NBSP" -> 160    [] c = "SHY" -> 173     [] c = "EACUTE" -> 233
    [] c = "EMDASH" -> 8212 [] c = "LSEP" -> 8232   [] c = "PSEP" -> 8233
    [] c = "EMOJI" -> 128512

\* Number of bytes of the character's UTF-8 encoding.
Utf8Len(c) ==
  IF Ord(c) < 128 THEN 1 ELSE IF Ord(c) < 2048 THEN 2
  ELSE IF Ord(c) < 65536 THEN 3 ELSE 4

\* The subject as a pattern without the u flag sees it: a sequence of bytes.
RECURSIVE Utf8Bytes(_)
Utf8Bytes(s) ==
  IF s = <<>> THEN <<>>
  ELSE (IF Utf8Len(Head(s)) = 1 THEN <<Head(s)>>
        ELSE [k \in 1..Utf8Len(Head(s)) |-> "BYTE"]) \o Utf8Bytes(Tail(s))

\* PCRE \s (C locale): space, \t, \n, \v, \f, \r.
IsSpace(c) == Ord(c) \in {9, 10, 11, 12, 13, 32}

\* [a-z] under the i flag.
IsAsciiLetter(c) == Ord(c) \in (65..90) \cup (97..122)

\* Case folding of the i flag (ASCII).
Fold(c) == CASE c = "B" -> "b" [] c = "N" -> "n" [] OTHER -> c

\* The character class of remove_regexp.
InRemoveClass(c) ==
  \/ Ord(c) \in 33..64        \* \x{0021}-\x{0040}
  \/ Ord(c) \in 91..96        \* \x{005B}-\x{0060}
  \/ Ord(c) \in 123..126      \* \x{007B}-\x{007E}
  \/ Ord(c) \in 128..191      \* \x{0080}-\x{00BF}
  \/ Ord(c) \in {215, 247}    \* \x{00D7} \x{00F7}
  \/ Ord(c) \in 8192..11263   \* \x{2000}-\x{2BFF}
  \/ Ord(c) \in 11776..11903  \* \x{2E00}-\x{2E7F}

\* The negated character class of characters_including_spaces_regexp.
InCharsIncludingSpacesClass(c) ==
  Ord(c) \notin {12, 10, 13, 9, 11, 173, 8232, 8233}

\* ------------------------------------------------------- pattern matching
Min(S) == CHOOSE x \in S : \A y \in S : x <= y

\* The literal lit stands in s at position i.
LitAt(s, lit, i) ==
  /\ i + Len(lit) - 1 <= Len(s)
  /\ \A k \in 1..Len(lit) : s[i + k - 1] = lit[k]

\* The same under the i flag.
LitAtCI(s, lit, i) ==
  /\ i + Len(lit) - 1 <= Len(s)
  /\ \A k \in 1..Len(lit) : Fold(s[i + k - 1]) = lit[k]

\* Smallest position >= i holding c, or 0.
FirstAt(s, c, i) ==
  LET J == {j \in i..Len(s) : s[j] = c}
  IN  IF J = {} THEN 0 ELSE Min(J)

\* Each Match* gives the position of the last character of the match that
\* starts at position i of s, or 0 when the pattern does not match there.

\* /<\/?[a-z][^>]*?>/i
MatchHtml(s, i) ==
  IF s[i] # "<" THEN 0
  ELSE LET k == IF i + 1 <= Len(s) /\ s[i + 1] = "/" THEN i + 2 ELSE i + 1
       IN  IF k <= Len(s) /\ IsAsciiLetter(s[k]) THEN FirstAt(s, ">", k + 1)
           ELSE 0

\* /<!--[\s\S]*?-->/
MatchHtmlComment(s, i) ==
  IF ~LitAt(s, <<"<", "!", "-", "-">>, i) THEN 0
  ELSE LET J == {j \in (i + 4)..Len(s) : LitAt(s, <<"-", "-", ">">>, j)}
       IN  IF J = {} THEN 0 ELSE Min(J) + 2

\* /&nbsp;|&#160;/i
MatchSpace(s, i) ==
  IF LitAtCI(s, <<"&", "n", "b", "s", "p", ";">>, i) THEN i + 5
  ELSE IF LitAtCI(s, <<"&", "#", "1", "6", "0", ";">>, i) THEN i + 5
  ELSE 0

\* /&\S+?;/
MatchHtmlEntity(s, i) ==
  IF s[i] # "&" THEN 0
  ELSE LET J == {j \in (i + 2)..Len(s) :
                   /\ s[j] = ";"
                   /\ \A k \in (i + 1)..(j - 1) : ~IsSpace(s[k])}
       IN  IF J = {} THEN 0 ELSE Min(J)

\* /--|\x{2014}/u
MatchConnector(s, i) ==
  IF LitAt(s, <<"-", "-">>, i) THEN i + 1
  ELSE IF s[i] = "EMDASH" THEN i
  ELSE 0

\* /[...]/u, a single character of the remove class
MatchRemove(s, i) == IF InRemoveClass(s[i]) THEN i ELSE 0

\* /\S\s+/
MatchWords(s, i) ==
  IF IsSpace(s[i]) \/ i + 1 > Len(s) \/ ~IsSpace(s[i + 1]) THEN 0
  ELSE LET J == {j \in (i + 1)..Len(s) : \A k \in (i + 1)..j : IsSpace(s[k])}
       IN  CHOOSE j \in J : \A k \in J : k <= j

\* /\S/
MatchCharactersExcludingSpaces(s, i) == IF IsSpace(s[i]) THEN 0 ELSE i

\* /[^\f\n\r\t\v\x{00AD}\x{2028}\x{2029}]/u
MatchCharactersIncludingSpaces(s, i) ==
  IF InCharsIncludingSpacesClass(s[i]) THEN i ELSE 0

\* \[\/?(?:n1|n2|...)[^\]]*?\] for the tag names `names`
MatchShortcodes(names, s, i) ==
  IF s[i] # "[" THEN 0
  ELSE LET k == IF i + 1 <= Len(s) /\ s[i + 1] = "/" THEN i + 2 ELSE i + 1
           ends == {k + Len(names[x]) : x \in {y \in DOMAIN names : LitAt(s, names[y], k)}}
                     \cup (IF names = <<>> THEN {k} ELSE {})
           J == {FirstAt(s, "]", e) : e \in ends} \ {0}
       IN  IF J = {} THEN 0 ELSE Min(J)

\* ------------------------------------------------------------- patterns
\* A pattern string with '/' delimiters, body `body`, the u flag or not.
Re(body, u) == [delim |-> TRUE, body |-> body, u |-> u, names |-> <<>>]

\* The empty string given where a pattern is expected.
EmptyRe == [delim |-> FALSE, body |-> "", u |-> FALSE, names |-> <<>>]

\* PHP null, as preg_replace returns it on an error; no text holds "NULL".
Null == <<"NULL">>

\* A null handed to a string parameter is the empty string.
ToStr(v) == IF v = Null THEN <<>> ELSE v

\* Whether PCRE compiles the pattern.  A pattern string whose first character
\* is a backslash has no delimiter ("Delimiter must not be alphanumeric or
\* backslash"); the escapes \x{D800}-\x{DFFF} are refused under the u flag
\* ("disallowed Unicode code point (>= 0xd800 && <= 0xdfff)").
Compiles(p) ==
  /\ p.delim
  /\ p.body # ""
  /\ ~(p.u /\ p.body = "astral")

\* End of the match of pattern p at position i of s, or 0.
MatchEnd(p, s, i) ==
  CASE p.body = "html" -> MatchHtml(s, i)
    [] p.body = "html_comment" -> MatchHtmlComment(s, i)
    [] p.body = "space" -> MatchSpace(s, i)
    [] p.body = "html_entity" -> MatchHtmlEntity(s, i)
    [] p.body = "connector" -> MatchConnector(s, i)
    [] p.body = "remove" -> MatchRemove(s, i)
    [] p.body = "words" -> MatchWords(s, i)
    [] p.body = "characters_excluding_spaces" -> MatchCharactersExcludingSpaces(s, i)
    [] p.body = "characters_including_spaces" -> MatchCharactersIncludingSpaces(s, i)
    [] p.body = "shortcodes" -> MatchShortcodes(p.names, s, i)
    [] OTHER -> 0

\* Leftmost non-overlapping matches from position i on, each replaced.
RECURSIVE ReplaceFrom(_, _, _, _)
ReplaceFrom(p, replacement, s, i) ==
  IF i > Len(s) THEN <<>>
  ELSE LET e == MatchEnd(p, s, i)
       IN  IF e = 0 THEN <<s[i]>> \o ReplaceFrom(p, replacement, s, i + 1)
           ELSE replacement \o ReplaceFrom(p, replacement, s, e + 1)

\* preg_replace( $pattern, $replacement, $subject ): null on an error.
preg_replace(p, replacement, subject) ==
  IF ~Compiles(p) THEN Null
  ELSE ReplaceFrom(p, replacement, ToStr(subject), 1)

RECURSIVE CountFrom(_, _, _)
CountFrom(p, s, i) ==
  IF i > Len(s) THEN 0
  ELSE LET e == MatchEnd(p, s, i)
       IN  IF e = 0 THEN CountFrom(p, s, i + 1) ELSE 1 + CountFrom(p, s, e + 1)

\* preg_match_all( $pattern, $subject, $matches ) and count( $matches[0] );
\* without the u flag the subject is matched byte by byte.
preg_match_all(p, subject) ==
  IF ~Compiles(p) THEN 0
  ELSE CountFrom(p, IF p.u THEN ToStr(subject) ELSE Utf8Bytes(ToStr(subject)), 1)

\* ------------------------------------------------------------- settings
defaults ==
  [k \in {"html_regexp", "html_comment_regexp", "space_regexp",
          "html_entity_regexp", "connector_regexp", "remove_regexp",
          "astral_regexp", "words_regexp",
          "characters_excluding_spaces_regexp",
          "characters_including_spaces_regexp"} |->
     CASE k = "html_regexp" -> Re("html", FALSE)
       [] k = "html_comment_regexp" -> Re("html_comment", FALSE)
       [] k = "space_regexp" -> Re("space", FALSE)
       [] k = "html_entity_regexp" -> Re("html_entity", FALSE)
       [] k = "connector_regexp" -> Re("connector", TRUE)
       [] k = "remove_regexp" -> Re("remove", TRUE)
       [] k = "astral_regexp" -> Re("astral", TRUE)
       [] k = "words_regexp" -> Re("words", FALSE)
       [] k = "characters_excluding_spaces_regexp" ->
            Re("characters_excluding_spaces", FALSE)
       [] k = "characters_including_spaces_regexp" ->
            Re("characters_including_spaces", TRUE)]

\* wp_parse_args( $args, $defaults ): the caller's keys over the defaults.
wp_parse_args(args, dflt) ==
  [k \in DOMAIN args \cup DOMAIN dflt |->
     IF k \in DOMAIN args THEN args[k] ELSE dflt[k]]

\* '\\[\\/?(?:' . implode( '|', $settings['shortcodes'] ) . ')[^\\]]*?\\]'
\* The string starts with a backslash: it has no delimiters.
ShortcodesRegexp(names) ==
  [delim |-> FALSE, body |-> "shortcodes", u |-> FALSE, names |-> names]

\* isset( $settings['shortcodes'] ) && is_array( $settings['shortcodes'] )
HasShortcodesArray(settings) ==
  "shortcodes" \in DOMAIN settings /\ settings["shortcodes"].is_array

\* The settings after the merge and the shortcode pattern's synthesis.
ResolveSettings(settings) ==
  LET merged == wp_parse_args(settings, defaults)
  IN  IF HasShortcodesArray(merged)
      THEN [k \in DOMAIN merged \cup {"shortcodes_regexp"} |->
              IF k = "shortcodes_regexp"
              THEN ShortcodesRegexp(merged["shortcodes"].items)
              ELSE merged[k]]
      ELSE merged

\* The guard as isset( $settings['shortcodes_regexp'] ): an empty pattern passes.
HasShortcodesRegexpIsset(resolved) == "shortcodes_regexp" \in DOMAIN resolved

\* ! empty( $settings['shortcodes_regexp'] )
HasShortcodesRegexp(resolved) ==
  "shortcodes_regexp" \in DOMAIN resolved /\ resolved["shortcodes_regexp"] # EmptyRe

\* The type left as the caller gave it.
SanitizeTypeKeep(type) == type

\* The type after the sanitizing of lines 67-70.
SanitizeType(type) ==
  IF type # "characters_excluding_spaces" /\ type # "characters_including_spaces"
  THEN "words" ELSE type

\* ! $text: the empty string and the string "0" are false.
IsFalsy(text) == text = <<>> \/ text = <<"0">>

\* $settings[ $type . '_regexp' ]; a missing key is null, an empty pattern.
TypeRegexp(resolved, type) ==
  IF type \o "_regexp" \in DOMAIN resolved THEN resolved[type \o "_regexp"]
  ELSE EmptyRe

\* ---------------------------------------------------------- the pipeline
\* The common steps without the newline appended at line 72.
StripMarkupNoNewline(text, S) ==
  LET noHtml == preg_replace(S["html_regexp"], <<"LF">>, text)
      noComment == preg_replace(S["html_comment_regexp"], <<>>, noHtml)
      noShortcodes == IF HasShortcodesRegexp(S)
                      THEN preg_replace(S["shortcodes_regexp"], <<"LF">>, noComment)
                      ELSE noComment
  IN  preg_replace(S["space_regexp"], <<" ">>, noShortcodes)

\* Lines 72-86: the steps common to the three types.
StripMarkup(text, S) ==
  LET appended == text \o <<"LF">>
      noHtml == preg_replace(S["html_regexp"], <<"LF">>, appended)
      noComment == preg_replace(S["html_comment_regexp"], <<>>, noHtml)
      noShortcodes == IF HasShortcodesRegexp(S)
                      THEN preg_replace(S["shortcodes_regexp"], <<"LF">>, noComment)
                      ELSE noComment
  IN  preg_replace(S["space_regexp"], <<" ">>, noShortcodes)

\* The branch with the removal of lines 96-97 ahead of the connectors of 93-94.
NormalizeRemoveFirst(t, type, S) ==
  IF type = "words"
  THEN preg_replace(S["connector_regexp"], <<" ">>,
         preg_replace(S["remove_regexp"], <<>>,
           preg_replace(S["html_entity_regexp"], <<>>, t)))
  ELSE preg_replace(S["astral_regexp"], <<"a">>,
         preg_replace(S["html_entity_regexp"], <<"a">>, t))

\* Lines 88-105: the branch on the type.
NormalizeForType(t, type, S) ==
  IF type = "words"
  THEN preg_replace(S["remove_regexp"], <<>>,
         preg_replace(S["connector_regexp"], <<" ">>,
           preg_replace(S["html_entity_regexp"], <<>>, t)))
  ELSE preg_replace(S["astral_regexp"], <<"a">>,
         preg_replace(S["html_entity_regexp"], <<"a">>, t))

\* Lines 60-114: the count of a text that passed the early return.
CountText(text, type, settings) ==
  LET S == ResolveSettings(settings)
      ty == SanitizeType(type)
      cleaned == NormalizeForType(StripMarkup(text, S), ty, S)
  IN  preg_match_all(TypeRegexp(S, ty), cleaned)

\* gutenberg_word_count( $text, $type, $settings )
gutenberg_word_count(text, type, settings) ==
  IF IsFalsy(text) THEN 0 ELSE CountText(text, type, settings)

\* ------------------------------------------------------------ the inputs
\* All sequences over S of length at most n.
Seqs(S, n) == UNION {[1..k -> S] : k \in 0..n}

\* Non-empty alphabetic words.
AlphaWords == Seqs({"a", "B"}, MaxWordLen) \ {<<>>}

\* Texts without markup.
PlainTexts == Seqs({"a", "0", " ", "TAB", "LF", "SHY"}, MaxLen)

\* Every character on its own.
OneCharTexts ==
  {<<c>> : c \in {"TAB", "LF", "VT", "FF", "CR", " ", "!", "#", "&", "-", "/",
                  "0", "1", "5", "6", ";", "<", "=", ">", "B", "N", "[", "]",
                  "a", "b", "g", "i", "m", "n", "p", "s", "NBSP", "SHY",
                  "EACUTE", "EMDASH", "LSEP", "PSEP", "EMOJI"}}

Tags ==
  { <<"<", "b", ">">>, <<"<", "/", "b", ">">>, <<"<", "B", " ", "i", "=", "1", ">">>,
    <<"<", "b", "/", ">">>, <<"<", "a", " ", "<", "b", ">">> }

CommentBodies ==
  { <<>>, <<" ", "a", " ">>, <<"-">>, <<"<", "b", ">">>, <<"<", "b">>,
    <<" ", "<", "/", "b", " ">>, <<"a", "<", "b", ">", " ", "a">> }

Comments == {<<"<", "!", "-", "-">> \o c \o <<"-", "-", ">">> : c \in CommentBodies}

Connectors == { <<"-", "-">>, <<"EMDASH">>, <<"-">> }

Entities ==
  { <<"&", "a", "m", "p", ";">>, <<"&", "#", "1", "6", ";">>,
    <<"&", "n", "b", "s", "p", ";">> }

ShortcodeTags ==
  { <<"[", "g", "]">>, <<"[", "/", "g", "]">>, <<"[", "g", " ", "i", "=", "1", "]">>,
    <<"[", "b", "]">> }

\* w1 . m . w2 for alphabetic words w1, w2 and a middle m.
Joined(middles) == {w1 \o m \o w2 : w1 \in AlphaWords, m \in middles, w2 \in AlphaWords}

\* A comment between texts that are no words.
CommentTexts ==
  {t1 \o c \o t2 : t1 \in {<<>>, <<"a", " ">>, <<"-">>}, c \in Comments,
                   t2 \in {<<>>, <<" ", "a">>, <<"-">>, <<">">>}}

Types ==
  {"words", "characters_excluding_spaces", "characters_including_spaces",
   "bogus", ""}

\* The caller's $settings: no key at all,
NoOverrides == [k \in {} |-> EmptyRe]

\* a shortcodes value (an array of tag names, or a value that is no array),
Shortcodes(isArray, items) ==
  [k \in {"shortcodes"} |-> [is_array |-> isArray, items |-> items]]

\* a pattern under one key,
Override(key, p) == [k \in {key} |-> p]

\* and a well-formed shortcode pattern of the caller's own.
CallerShortcodesRegexp ==
  [delim |-> TRUE, body |-> "shortcodes", u |-> FALSE, names |-> << <<"g">> >>]

OverrideSet ==
  { Shortcodes(TRUE, << <<"g">> >>),
    Shortcodes(TRUE, << <<"a">>, <<"g">> >>),
    Shortcodes(TRUE, <<>>),
    Shortcodes(FALSE, <<>>),
    Override("shortcodes_regexp", CallerShortcodesRegexp),
    Override("shortcodes_regexp", EmptyRe),
    Override("words_regexp", Re("characters_excluding_spaces", FALSE)) }

Inputs ==
  ((PlainTexts \cup OneCharTexts \cup CommentTexts
      \cup Joined(Tags \cup Comments \cup Connectors \cup Entities \cup ShortcodeTags))
     \X Types \X {NoOverrides})
  \cup ((Joined(ShortcodeTags) \cup OneCharTexts) \X Types \X OverrideSet)

\* ------------------------------------------------------ the state machine
VARIABLES text, type, settings, pc, count, shortcodes_stripped

vars == <<text, type, settings, pc, count, shortcodes_stripped>>

\* A call is about to run: its arguments are chosen, $count = 0.
Init ==
  /\ \E in \in Inputs : text = in[1] /\ type = in[2] /\ settings = in[3]
  /\ pc = "call"
  /\ count = 0
  /\ shortcodes_stripped = FALSE

\* Lines 56-58: the early return.
ReturnEarly ==
  /\ pc = "call"
  /\ IsFalsy(text)
  /\ pc' = "returned_early"
  /\ UNCHANGED <<text, type, settings, count, shortcodes_stripped>>

\* Lines 60-114: the pipeline, to the return of the count.
ReturnCount ==
  /\ pc = "call"
  /\ ~IsFalsy(text)
  /\ shortcodes_stripped' = HasShortcodesRegexp(ResolveSettings(settings))
  /\ count' = CountText(text, type, settings)
  /\ pc' = "returned"
  /\ UNCHANGED <<text, type, settings>>

Next == ReturnEarly \/ ReturnCount

Spec == Init /\ [][Next]_vars

\* ------------------------------------------------- vocabulary of the claims
CharacterTypes == {"characters_excluding_spaces", "characters_including_spaces"}

\* The text cut in three: Pre(i) . Mid(i, j) . Post(j), 0 <= i <= j <= Len(text).
Pre(i) == SubSeq(text, 1, i)
Mid(i, j) == SubSeq(text, i + 1, j)
Post(j) == SubSeq(text, j + 1, Len(text))
Cuts == {c \in (0..Len(text)) \X (0..Len(text)) : c[1] <= c[2]}

IsAlphaWord(w) == w # <<>> /\ \A k \in DOMAIN w : IsAsciiLetter(w[k])

\* '<name ...>' or '</name ...>': one tag, closed by its first '>'.
IsTagForm(t) ==
  /\ Len(t) >= 3 /\ t[1] = "<" /\ t[Len(t)] = ">"
  /\ IsAsciiLetter(t[IF t[2] = "/" THEN 3 ELSE 2])
  /\ \A k \in 2..(Len(t) - 1) : t[k] # ">"

\* '<!--' body '-->' whose body holds no '-->'.
IsCommentForm(c) ==
  /\ Len(c) >= 7
  /\ LitAt(c, <<"<", "!", "-", "-">>, 1)
  /\ LitAt(c, <<"-", "-", ">">>, Len(c) - 2)
  /\ \A k \in 5..(Len(c) - 3) : ~LitAt(c, <<"-", "-", ">">>, k)

\* '[n ...]' or '[/n ...]' for the tag name n.
IsShortcodeForm(m, n) ==
  /\ Len(m) >= 2 /\ m[1] = "[" /\ m[Len(m)] = "]"
  /\ LitAt(m, n, IF m[2] = "/" THEN 3 ELSE 2)
  /\ (IF m[2] = "/" THEN 3 ELSE 2) + Len(n) <= Len(m)
  /\ \A k \in 2..(Len(m) - 1) : m[k] # "]"

\* Free of '<', '&' and '['.
IsMarkupFree(t) == \A k \in DOMAIN t : t[k] \notin {"<", "&", "["}

\* Number of maximal runs of non-whitespace characters.
Runs(t) ==
  Cardinality({k \in DOMAIN t :
                 ~IsSpace(t[k]) /\ (k = Len(t) \/ IsSpace(t[k + 1]))})

\* The caller gave a shortcodes array / a non-empty array / a pattern of their own.
GaveShortcodesArray == HasShortcodesArray(settings)
GaveShortcodesList == GaveShortcodesArray /\ settings["shortcodes"].items # <<>>
GaveShortcodesRegexp ==
  "shortcodes_regexp" \in DOMAIN settings /\ settings["shortcodes_regexp"] # EmptyRe
OnlyShortcodeKeys == DOMAIN settings \subseteq {"shortcodes", "shortcodes_regexp"}

\* ------------------------------------------------------------------ claims

\* C1: with shortcodes = [n], count(w1 . '[n attrs]' . w2, 'words') = 2 for
\* alphabetic words w1, w2: the shortcode is a separator.
C1_ShortcodeSeparates ==
  (pc # "call" /\ type = "words" /\ DOMAIN settings = {"shortcodes"}
     /\ GaveShortcodesList)
  => \A c \in Cuts :
       (/\ IsAlphaWord(Pre(c[1])) /\ IsAlphaWord(Post(c[2]))
        /\ \E x \in DOMAIN settings["shortcodes"].items :
             IsShortcodeForm(Mid(c[1], c[2]), settings["shortcodes"].items[x]))
       => count = 2

\* C2: in a word count a tag between two alphabetic words separates them
\* (count 2) and a comment between them is deleted (count 1).
C2_TagSeparatesCommentFuses ==
  (pc # "call" /\ type = "words" /\ DOMAIN settings = {})
  => \A c \in Cuts :
       (IsAlphaWord(Pre(c[1])) /\ IsAlphaWord(Post(c[2])))
       => /\ IsTagForm(Mid(c[1], c[2])) => count = 2
          /\ IsCommentForm(Mid(c[1], c[2])) => count = 1

\* C3: for both character types an entity between two alphabetic words
\* counts as exactly one character.
C3_EntityCountsOne ==
  (pc # "call" /\ type \in CharacterTypes /\ DOMAIN settings = {})
  => \A c \in Cuts :
       (/\ IsAlphaWord(Pre(c[1])) /\ IsAlphaWord(Post(c[2]))
        /\ Mid(c[1], c[2]) # <<>>
        /\ MatchHtmlEntity(Mid(c[1], c[2]), 1) = Len(Mid(c[1], c[2])))
       => count = Len(Pre(c[1])) + 1 + Len(Post(c[2]))

\* C4: the word count of a non-empty text of letters and whitespace is the
\* number of its maximal runs of non-whitespace, whether or not it ends in
\* whitespace.
C4_TrailingWord ==
  (/\ pc # "call" /\ type = "words" /\ DOMAIN settings = {}
   /\ text # <<>>
   /\ \A k \in DOMAIN text : IsAsciiLetter(text[k]) \/ text[k] = "EACUTE" \/ IsSpace(text[k]))
  => count = Runs(text)

C4_Witness ==
  /\ pc = "returned" /\ type = "words" /\ DOMAIN settings = {}
  /\ text = <<"a", " ", "a">> /\ count = 2

\* C5: between two alphabetic words a double hyphen or an em-dash splits
\* (count 2), a single hyphen is removed and fuses them (count 1).
C5_Connector ==
  (pc # "call" /\ type = "words" /\ DOMAIN settings = {})
  => \A c \in Cuts :
       (IsAlphaWord(Pre(c[1])) /\ IsAlphaWord(Post(c[2])))
       => /\ Mid(c[1], c[2]) \in {<<"-", "-">>, <<"EMDASH">>} => count = 2
          /\ Mid(c[1], c[2]) = <<"-">> => count = 1

C5_Witness ==
  /\ pc = "returned" /\ type = "words" /\ DOMAIN settings = {}
  /\ text = <<"a", "B", "EMDASH", "a">> /\ count = 2

\* C6: a type other than the two character types gives the result of 'words',
\* for every text and every settings.
C6_UnknownTypeIsWords ==
  (pc # "call" /\ type \notin CharacterTypes)
  => count = gutenberg_word_count(text, "words", settings)

C6_Witness ==
  /\ pc = "returned" /\ type = "bogus"
  /\ settings = Override("words_regexp", Re("characters_excluding_spaces", FALSE))
  /\ text = <<"a", "[", "g", "]", "B">> /\ count = 3

C8_CharsIncludingSpaces ==
  (/\ pc # "call" /\ type = "characters_including_spaces" /\ DOMAIN settings = {}
   /\ IsMarkupFree(text) /\ \A k \in DOMAIN text : text[k] # "EMOJI")
  => count = Cardinality({k \in DOMAIN text :
                            Ord(text[k]) \notin {12, 10, 13, 11, 173, 8232, 8233}})

\* C9: only the empty text returns early; a one-character text of a letter or
\* a digit yields 1 for each of the three types.
C9_SingleCharacter ==
  (/\ pc # "call" /\ DOMAIN settings = {} /\ type \in CharacterTypes \cup {"words"}
   /\ Len(text) = 1 /\ (IsAsciiLetter(text[1]) \/ Ord(text[1]) \in 48..57))
  => pc = "returned" /\ count = 1

\* C10: a comment contributes nothing: count(t1 . '<!--' c '-->' . t2) =
\* count(t1 . t2) for t1, t2 free of '<', '&', '[' and every type.
C10_CommentContributesNothing ==
  (pc # "call" /\ DOMAIN settings = {} /\ type \in CharacterTypes \cup {"words"})
  => \A c \in Cuts :
       (/\ IsCommentForm(Mid(c[1], c[2]))
        /\ IsMarkupFree(Pre(c[1])) /\ IsMarkupFree(Post(c[2])))
       => count = gutenberg_word_count(Pre(c[1]) \o Post(c[2]), type, NoOverrides)
====
